---- MODULE Spec2Model ----
(***************************************************************************)
(* Model of src/app.py: a Flask service that turns three datasets into a   *)
(* paginated PDF with a table of contents and "Page i of N" stamps.        *)
(*                                                                         *)
(* Text is modelled structurally: a heading label "k.s.i ..." is the       *)
(* triple <<k, s, i>>, a string is the sequence of its characters, a dict  *)
(* is the ordered sequence of its (key, value) pairs.                      *)
(***************************************************************************)
EXTENDS Integers, Sequences, FiniteSets, TLC

VARIABLES
    endpoint,   \* which view function handles the request
    data,       \* request.get_json() of the POST request
    dataset1, dataset2, dataset3,   \* the three lists handed to generate_pdf
    filepath,   \* output path computed by the view
    story,      \* generate_pdf: the list of flowables
    toc,        \* the TableOfContents flowable: _entries / _lastEntries
    added,      \* every toc.addEntry call made so far, in order
    pc,         \* position of the request in view + generate_pdf + multiBuild
    passes,     \* multiBuild: number of build passes started
    tempStory,  \* multiBuild: the copy of the story consumed by one pass
    pos,        \* index of the next flowable of tempStory to lay out
    page,       \* doc.page
    canv,       \* the NumberedCanvas of the current pass
    files,      \* the temp directory: path -> document or NoFile
    response,   \* what the caller receives
    failure,    \* the exception raised inside generate_pdf, if any
    genCalls,   \* number of times generate_pdf was entered
    clock,      \* datetime.now() at one-second resolution
    reqs,       \* concurrent POST requests (threaded server)
    tdata,      \* argument of a direct create_summary_table call
    table       \* its result

vars == <<endpoint, data, dataset1, dataset2, dataset3, filepath, story, toc, added,
          pc, passes, tempStory, pos, page, canv, files, response, failure,
          genCalls, clock, reqs, tdata, table>>

(***************************************************************************)
(* Bounds of the explored inputs.                                          *)
(***************************************************************************)
MaxItems == 6
MaxRows == 6
MaxKeys == 4
MaxValLen == 32
MaxShowPages == 3
MaxDraws == 1

Min(a, b) == IF a < b THEN a ELSE b

(***************************************************************************)
(* Python values.                                                          *)
(***************************************************************************)
\* a string of n characters; character i is i, so a prefix differs from
\* any other slice of the same length
Str(n) == [i \in 1..n |-> i]

\* s[:n]
Slice(s, n) == SubSeq(s, 1, Min(n, Len(s)))

\* dataset[:5]
FirstFive_all(ds) == ds
FirstFive(ds) == Slice(ds, 5)

\* a JSON object {"k1": v1, ...}: ordered (key, value) pairs, values by str()
\* text identifies the content, h is the height of Paragraph(str(item))
DictItem(pairs, text, h) == [kind |-> "dict", fields |-> pairs, text |-> text, h |-> h]
\* a JSON string
StrItem(text, h) == [kind |-> "str", fields |-> <<>>, text |-> text, h |-> h]
NoItem == [kind |-> "none", fields |-> <<>>, text |-> <<>>, h |-> 0]

\* isinstance(item, dict)
IsDict(item) == item.kind = "dict"

\* list(d.keys())
Keys(item) == [j \in 1..Len(item.fields) |-> item.fields[j].k]

\* str(item.get(h, ''))
Get(item, h) ==
    IF \E j \in 1..Len(item.fields) : item.fields[j].k = h
    THEN item.fields[CHOOSE j \in 1..Len(item.fields) : item.fields[j].k = h].v
    ELSE <<>>

(***************************************************************************)
(* PDFGenerator.create_summary_table                                       *)
(***************************************************************************)
SpacerTable == [kind |-> "Spacer", headers |-> <<>>, rows |-> <<>>]

\* item.get on something that is not a dict raises AttributeError
SummaryTableRaises(tdat) ==
    /\ Len(tdat) > 0
    /\ IsDict(tdat[1])
    /\ \E i \in 1..Min(5, Len(tdat)) : ~IsDict(tdat[i])

CellLimit == 30
ColumnLimit == 3

Cell_untruncated(item, h) == Get(item, h)
Cell(item, h) == Slice(Get(item, h), CellLimit)

Headers(tdat) == Slice(Keys(tdat[1]), ColumnLimit)

create_summary_table(tdat) ==
    IF Len(tdat) = 0 \/ ~IsDict(tdat[1])
    THEN SpacerTable
    ELSE LET headers == Headers(tdat)
             shown == FirstFive(tdat)
         IN [kind |-> "Table",
             headers |-> headers,
             rows |-> [i \in 1..Len(shown) |->
                          [j \in 1..Len(headers) |-> Cell(shown[i], headers[j])]]]

(***************************************************************************)
(* Flowables.  Every flowable is a record of the same shape:               *)
(*   kind   Paragraph | Spacer | PageBreak | Table | TOC | TOCLine         *)
(*   style  the paragraph style; the three title styles are headings       *)
(*   role   what the paragraph says (heading, note, item, ...)             *)
(*   label  <<k, s, i>> for the numbering "k.s.i" of the text              *)
(*   n      the numbers formatted into the text                            *)
(*   item   the item whose str() is the text                               *)
(*   table  the data of a Table                                            *)
(*   h      height on the page, in lines                                   *)
(***************************************************************************)
NoTable == [kind |-> "none", headers |-> <<>>, rows |-> <<>>]

TitleH == 2
SectionTitleH == 2
SubSectionTitleH == 1
BodyH == 1
SpacerH == 1
PageCap == 8

Flowable(kind, style, role, label, n, item, tbl, h) ==
    [kind |-> kind, style |-> style, role |-> role, label |-> label, n |-> n,
     item |-> item, table |-> tbl, h |-> h]

Title == Flowable("Paragraph", "CustomTitle", "heading", <<0, 0, 0>>, <<>>, NoItem, NoTable, TitleH)
TocTitle == Flowable("Paragraph", "SectionTitle", "heading", <<0, 0, 1>>, <<>>, NoItem, NoTable, SectionTitleH)
Spacer == Flowable("Spacer", "", "", <<0, 0, 0>>, <<>>, NoItem, NoTable, SpacerH)
PageBreak == Flowable("PageBreak", "", "", <<0, 0, 0>>, <<>>, NoItem, NoTable, 0)
TocFlowable == Flowable("TOC", "", "", <<0, 0, 0>>, <<>>, NoItem, NoTable, 0)

SectionHeading(k) ==
    Flowable("Paragraph", "SectionTitle", "heading", <<k, 0, 0>>, <<>>, NoItem, NoTable, SectionTitleH)
SubHeading(k, s, i) ==
    Flowable("Paragraph", "SubSectionTitle", "heading", <<k, s, i>>, <<>>, NoItem, NoTable, SubSectionTitleH)

\* f"... contains {len(dataset)} records."
CountNote(k, ds) ==
    Flowable("Paragraph", "CustomBody", "note", <<k, 1, 0>>, <<Len(ds)>>, NoItem, NoTable, BodyH)

\* Paragraph(str(item))
ItemBody(k, i, item) ==
    Flowable("Paragraph", "CustomBody", "item", <<k, 2, i>>, <<>>, item, NoTable, item.h)

TableFlowable(k, tbl) ==
    Flowable(tbl.kind, "", "", <<k, 3, 0>>, <<>>, NoItem, tbl,
             IF tbl.kind = "Table" THEN 1 + Len(tbl.rows) ELSE 0)

\* for i, item in enumerate(dataset[:5], 1): heading, body, spacer
ItemBlocks(k, ds) ==
    LET shown == FirstFive(ds)
    IN [j \in 1..(3 * Len(shown)) |->
           LET i == ((j - 1) \div 3) + 1
           IN CASE (j - 1) % 3 = 0 -> SubHeading(k, 2, i)
                [] (j - 1) % 3 = 1 -> ItemBody(k, i, shown[i])
                [] OTHER -> Spacer]

\* if dataset1 and isinstance(dataset1[0], dict): only section 1 has this
HasSummaryTable_anySection(k, ds) == Len(ds) > 0 /\ IsDict(ds[1])
HasSummaryTable(k, ds) == k = 1 /\ Len(ds) > 0 /\ IsDict(ds[1])

SummaryBlocks(k, ds) ==
    IF HasSummaryTable(k, ds)
    THEN <<SubHeading(k, 3, 0), TableFlowable(k, create_summary_table(FirstFive(ds)))>>
    ELSE <<>>

Section(k, ds) ==
    <<SectionHeading(k), Spacer, SubHeading(k, 1, 0), CountNote(k, ds)>>
        \o ItemBlocks(k, ds) \o SummaryBlocks(k, ds) \o <<PageBreak>>

ConclusionText ==
    Flowable("Paragraph", "CustomBody", "conclusion", <<4, 0, 0>>, <<>>, NoItem, NoTable, 2)

\* stats_text: the three lengths and their sum
StatsText(d1, d2, d3) ==
    Flowable("Paragraph", "CustomBody", "stats", <<4, 1, 0>>,
             <<Len(d1), Len(d2), Len(d3), Len(d1) + Len(d2) + Len(d3)>>, NoItem, NoTable, 2)

Conclusion(d1, d2, d3) ==
    <<SectionHeading(4), Spacer, ConclusionText, SubHeading(4, 1, 0), StatsText(d1, d2, d3)>>

\* the story as generate_pdf appends it
Story(d1, d2, d3) ==
    <<Title, Spacer, TocTitle, Spacer, TocFlowable, PageBreak>>
        \o Section(1, d1) \o Section(2, d2) \o Section(3, d3)
        \o Conclusion(d1, d2, d3)

(***************************************************************************)
(* toc.addEntry(level, text, doc.page) as generate_pdf calls it, next to   *)
(* the append of each heading.  dp is the value doc.page has at that time. *)
(***************************************************************************)
Entry(level, label, pageNum) == [level |-> level, text |-> label, pageNum |-> pageNum]

ItemEntries(k, ds, dp) ==
    [i \in 1..Len(FirstFive(ds)) |-> Entry(2, <<k, 2, i>>, dp)]

SectionEntries(k, ds, dp) ==
    <<Entry(0, <<k, 0, 0>>, dp), Entry(1, <<k, 1, 0>>, dp)>>
        \o ItemEntries(k, ds, dp)
        \o (IF HasSummaryTable(k, ds) THEN <<Entry(1, <<k, 3, 0>>, dp)>> ELSE <<>>)

AddedEntries(d1, d2, d3, dp) ==
    SectionEntries(1, d1, dp) \o SectionEntries(2, d2, dp) \o SectionEntries(3, d3, dp)
        \o <<Entry(0, <<4, 0, 0>>, dp), Entry(1, <<4, 1, 0>>, dp)>>

\* doc.page is assigned by the layout library when a build begins;
\* generate_pdf reads it while it assembles the story, before any build.
\* The read either raises AttributeError or yields the pre-build value.
PreBuildPage == 0
(***************************************************************************)
(* NumberedCanvas.  code is what has been drawn on the current page,       *)
(* pages is what reportlab's Canvas.showPage has emitted to the document.  *)
(***************************************************************************)
NewCanvas ==
    [pageNumber |-> 1, code |-> <<>>, saved_page_states |-> <<>>,
     pages |-> <<>>, closed |-> FALSE]

\* f"Page {self._pageNumber} of {page_count}" drawn at the bottom right
Stamp(i, page_count) ==
    Flowable("Stamp", "", "", <<0, 0, 0>>, <<i, page_count>>, NoItem, NoTable, 0)

\* Canvas._startPage
StartPage(c) == [c EXCEPT !.pageNumber = @ + 1, !.code = <<>>]

\* dict(self.__dict__): the fields a page depends on
PageState(c) == [pageNumber |-> c.pageNumber, code |-> c.code]

\* NumberedCanvas.showPage
showPage(c) ==
    StartPage([c EXCEPT !.saved_page_states = Append(@, PageState(c))])

\* self.__dict__.update(state)
Restore_codeOnly(c, state) == [c EXCEPT !.code = state.code]
Restore(c, state) ==
    [c EXCEPT !.pageNumber = state.pageNumber, !.code = state.code]

draw_page_number(c, page_count) ==
    [c EXCEPT !.code = Append(@, Stamp(c.pageNumber, page_count))]

\* canvas.Canvas.showPage: emit the page, start the next one
BaseShowPage(c) == StartPage([c EXCEPT !.pages = Append(@, c.code)])

RECURSIVE SaveLoop(_, _, _)
SaveLoop(c, states, num_pages) ==
    IF states = <<>>
    THEN c
    ELSE SaveLoop(BaseShowPage(draw_page_number(Restore(c, Head(states)), num_pages)),
                  Tail(states), num_pages)

\* NumberedCanvas.save
save(c) ==
    [SaveLoop(c, c.saved_page_states, Len(c.saved_page_states)) EXCEPT !.closed = TRUE]

(***************************************************************************)
(* doc.multiBuild(story, canvasmaker=NumberedCanvas): the layout library   *)
(* as this program drives it.  The document template is a plain            *)
(* SimpleDocTemplate, so no flowable notifies the table of contents.       *)
(***************************************************************************)
maxPasses == 10

\* TableOfContents.beforeBuild
beforeBuild(t) == [lastEntries |-> t.entries, entries |-> <<>>]

\* TableOfContents.isSatisfied
isSatisfied(t) == t.entries = t.lastEntries

PlaceholderEntry == Entry(0, <<0, 0, 0>>, 0)

TocLine(e) ==
    Flowable("TOCLine", "", "", e.text, <<e.level, e.pageNum>>, NoItem, NoTable, 1)

\* the table of contents draws the entries of the previous pass, one line
\* each, or one placeholder line when there are none
TocLines(t) ==
    IF t.lastEntries = <<>>
    THEN <<TocLine(PlaceholderEntry)>>
    ELSE [i \in 1..Len(t.lastEntries) |-> TocLine(t.lastEntries[i])]

RECURSIVE Expand(_, _)
Expand(st, t) ==
    IF st = <<>> THEN <<>>
    ELSE (IF Head(st).kind = "TOC" THEN TocLines(t) ELSE <<Head(st)>>)
             \o Expand(Tail(st), t)

\* fill one page from flowable i on; the result is the index of the first
\* flowable of the next page
RECURSIVE Fill(_, _, _)
Fill(st, i, used) ==
    IF i > Len(st) THEN i
    ELSE IF st[i].kind = "PageBreak" THEN i + 1
    ELSE IF used + st[i].h <= PageCap THEN Fill(st, i + 1, used + st[i].h)
    ELSE i

\* the flowables of st[from .. to-1] that draw something
Drawn(st, from, to) ==
    SelectSeq(SubSeq(st, from, to - 1), LAMBDA f : f.kind # "PageBreak")

LayOutPage(c, st, from) ==
    showPage([c EXCEPT !.code = @ \o Drawn(st, from, Fill(st, from, 0))])

RECURSIVE LayOutFrom(_, _, _)
LayOutFrom(c, st, from) ==
    IF from > Len(st) THEN c
    ELSE LayOutFrom(LayOutPage(c, st, from), st, Fill(st, from, 0))

NoFile == [exists |-> FALSE, pages |-> <<>>]
Document(c) == [exists |-> TRUE, pages |-> c.pages]

\* generate_pdf as a whole, for a call that does not raise: the first pass
\* clears the entries added during assembly, the second pass is satisfied
\* and is the one saved
GeneratedDocument(d1, d2, d3) ==
    Document(save(LayOutFrom(NewCanvas,
                             Expand(Story(d1, d2, d3),
                                    [lastEntries |-> <<>>, entries |-> <<>>]), 1)))
(***************************************************************************)
(* Requests.                                                               *)
(***************************************************************************)
MaxClock == 1

Kinds == {"dict", "str"}
OtherKind(kind) == IF kind = "dict" THEN "str" ELSE "dict"

\* item i of an input list: its content is Str(i), its height alternates
MkItem(kind, i, hsel) ==
    IF kind = "dict"
    THEN DictItem(<<[k |-> 1, v |-> Str(i)]>>, Str(i), 1 + ((i + hsel) % 2))
    ELSE StrItem(Str(i), 1 + ((i + hsel) % 2))

\* a list of n items of one kind; mixed makes the second item the other kind
Dataset(n, kind, mixed, hsel) ==
    [i \in 1..n |-> MkItem(IF mixed /\ i = 2 THEN OtherKind(kind) ELSE kind, i, hsel)]

FirstInputs ==
    {Dataset(n, kind, mixed, hsel) :
        n \in 0..MaxItems, kind \in Kinds, mixed \in BOOLEAN, hsel \in 0..1}
OtherInputs ==
    {Dataset(n, kind, FALSE, 0) : n \in {0, 1, MaxItems}, kind \in Kinds}

\* the JSON body: has[k] says whether key "datasetk" is present, other
\* whether the object has any other key
PostBodies ==
    {b \in [has : [1..3 -> BOOLEAN],
            val : {<<a, c, d>> : a \in FirstInputs, c \in OtherInputs, d \in OtherInputs},
            other : BOOLEAN] :
        /\ \A k \in 1..3 : b.val[k] # <<>> => b.has[k]
        /\ b.other => \A k \in 1..3 : ~b.has[k]}

NoBody == [has |-> [k \in 1..3 |-> FALSE], val |-> <<<<>>, <<>>, <<>>>>, other |-> FALSE]

\* "if not data"
Falsy(b) == ~b.other /\ \A k \in 1..3 : ~b.has[k]

\* data.get('datasetk', [])
GetDataset(b, k) == IF b.has[k] THEN b.val[k] ELSE <<>>

\* "dataset1 or dataset2 or dataset3"
AnyDataset_present(b) == \E k \in 1..3 : Len(GetDataset(b, k)) >= 0
AnyDataset_all(b) == \A k \in 1..3 : GetDataset(b, k) # <<>>
AnyDataset(b) == \E k \in 1..3 : GetDataset(b, k) # <<>>

\* the mock data of generate_sample: 7 records of 4 keys, 6 records of 3
\* keys, 7 strings
SampleRecord(i, nkeys) ==
    DictItem([j \in 1..nkeys |-> [k |-> j, v |-> Str(i + j)]], Str(i), 1)
SampleDataset1 == [i \in 1..7 |-> SampleRecord(i, 4)]
SampleDataset2 == [i \in 1..6 |-> SampleRecord(i, 3)]
SampleDataset3 == [i \in 1..7 |-> StrItem(Str(i), 1)]

Path(prefix, ts) == [prefix |-> prefix, ts |-> ts]
NoPath == Path("", 0)
Paths == {Path(prefix, ts) : prefix \in {"poc_document", "sample_poc"}, ts \in 0..MaxClock}

Response(status, kind, doc) == [status |-> status, kind |-> kind, doc |-> doc]
NoResponse == Response(0, "none", NoFile)

EmptyToc == [lastEntries |-> <<>>, entries |-> <<>>]

IdleReqs == [r \in 1..2 |-> [pc |-> "idle", d |-> <<<<>>, <<>>, <<>>>>, path |-> NoPath,
                             resp |-> NoResponse]]

InitCommon ==
    /\ dataset1 = <<>> /\ dataset2 = <<>> /\ dataset3 = <<>>
    /\ filepath = NoPath
    /\ story = <<>>
    /\ toc = EmptyToc
    /\ added = <<>>
    /\ passes = 0
    /\ tempStory = <<>>
    /\ pos = 1
    /\ page = 0
    /\ canv = NewCanvas
    /\ files = [p \in Paths |-> NoFile]
    /\ response = NoResponse
    /\ failure = "none"
    /\ genCalls = 0
    /\ clock = 0
    /\ tdata = <<>>
    /\ table = NoTable

Init ==
    /\ InitCommon
    /\ reqs = IdleReqs
    /\ pc = "request"
    /\ \/ endpoint = "post" /\ data \in PostBodies
       \/ endpoint = "sample" /\ data = NoBody

reqVars == <<endpoint, data, clock, reqs, tdata, table>>
genVars == <<dataset1, dataset2, dataset3, filepath>>
buildVars == <<story, toc, added, passes, tempStory, pos, page, canv>>

(***************************************************************************)
(* generate_pdf_api, up to the call of generate_pdf                        *)
(***************************************************************************)
PostValidate ==
    /\ pc = "request" /\ endpoint = "post"
    /\ IF Falsy(data) \/ ~AnyDataset(data)
       THEN /\ response' = Response(400, "error", NoFile)
            /\ pc' = "done"
            /\ UNCHANGED genVars
       ELSE /\ dataset1' = GetDataset(data, 1)
            /\ dataset2' = GetDataset(data, 2)
            /\ dataset3' = GetDataset(data, 3)
            /\ filepath' = Path("poc_document", clock)
            /\ pc' = "generate"
            /\ UNCHANGED response
    /\ UNCHANGED <<buildVars, files, failure, genCalls, reqVars>>

(***************************************************************************)
(* generate_sample, up to the call of generate_pdf                         *)
(***************************************************************************)
SampleStart ==
    /\ pc = "request" /\ endpoint = "sample"
    /\ dataset1' = SampleDataset1
    /\ dataset2' = SampleDataset2
    /\ dataset3' = SampleDataset3
    /\ filepath' = Path("sample_poc", clock)
    /\ pc' = "generate"
    /\ UNCHANGED <<buildVars, files, response, failure, genCalls, reqVars>>

(***************************************************************************)
(* generate_pdf: assembling the story                                      *)
(***************************************************************************)
Assemble ==
    /\ pc = "generate"
    /\ genCalls' = genCalls + 1
    /\ \E pageRaises \in BOOLEAN :
         IF pageRaises
         THEN /\ failure' = "AttributeError: page"
              /\ pc' = "raised"
              /\ UNCHANGED <<story, toc, added>>
         ELSE IF HasSummaryTable(1, dataset1) /\ SummaryTableRaises(FirstFive(dataset1))
         THEN /\ failure' = "AttributeError: get"
              /\ pc' = "raised"
              /\ UNCHANGED <<story, toc, added>>
         ELSE /\ story' = Story(dataset1, dataset2, dataset3)
              /\ toc' = [lastEntries |-> <<>>,
                         entries |-> AddedEntries(dataset1, dataset2, dataset3, PreBuildPage)]
              /\ added' = AddedEntries(dataset1, dataset2, dataset3, PreBuildPage)
              /\ pc' = "pass"
              /\ UNCHANGED failure
    /\ UNCHANGED <<genVars, passes, tempStory, pos, page, canv, files, response, reqVars>>

(***************************************************************************)
(* doc.multiBuild: one pass = BeginPass, LayoutPage per page, EndPass      *)
(***************************************************************************)
BeginPass ==
    /\ pc = "pass"
    /\ passes' = passes + 1
    /\ toc' = beforeBuild(toc)
    /\ tempStory' = Expand(story, beforeBuild(toc))
    /\ canv' = NewCanvas
    /\ page' = 0
    /\ pos' = 1
    /\ pc' = "layout"
    /\ UNCHANGED <<genVars, story, added, files, response, failure, genCalls, reqVars>>

LayoutPage ==
    /\ pc = "layout"
    /\ pos <= Len(tempStory)
    /\ page' = page + 1
    /\ canv' = LayOutPage(canv, tempStory, pos)
    /\ pos' = Fill(tempStory, pos, 0)
    /\ UNCHANGED <<genVars, story, toc, added, passes, tempStory, pc, files, response,
                   failure, genCalls, reqVars>>

EndPass ==
    /\ pc = "layout"
    /\ pos > Len(tempStory)
    /\ IF isSatisfied(toc)
       THEN pc' = "save" /\ UNCHANGED failure
       ELSE IF passes > maxPasses
       THEN pc' = "raised" /\ failure' = "IndexError"
       ELSE pc' = "pass" /\ UNCHANGED failure
    /\ UNCHANGED <<genVars, buildVars, files, response, genCalls, reqVars>>

\* self.canv.save(): NumberedCanvas.save, which writes the file or fails
Save ==
    /\ pc = "save"
    /\ \E written \in BOOLEAN :
         IF written
         THEN /\ canv' = save(canv)
              /\ files' = [files EXCEPT ![filepath] = Document(save(canv))]
              /\ pc' = "built"
              /\ UNCHANGED failure
         ELSE /\ failure' = "IOError"
              /\ pc' = "raised"
              /\ UNCHANGED <<canv, files>>
    /\ UNCHANGED <<genVars, story, toc, added, passes, tempStory, pos, page, response,
                   genCalls, reqVars>>

(***************************************************************************)
(* the views after generate_pdf                                            *)
(***************************************************************************)
\* generate_pdf_api: send_file(filepath)
PostSend ==
    /\ pc = "built" /\ endpoint = "post"
    /\ response' = Response(200, "pdf", files[filepath])
    /\ pc' = "done"
    /\ UNCHANGED <<genVars, buildVars, files, failure, genCalls, reqVars>>

\* generate_pdf_api: except Exception as e
PostExcept ==
    /\ pc = "raised" /\ endpoint = "post"
    /\ response' = Response(500, "error", NoFile)
    /\ pc' = "done"
    /\ UNCHANGED <<genVars, buildVars, files, failure, genCalls, reqVars>>

\* generate_sample: send_file(filepath)
SampleSend ==
    /\ pc = "built" /\ endpoint = "sample"
    /\ response' = Response(200, "pdf", files[filepath])
    /\ pc' = "done"
    /\ UNCHANGED <<genVars, buildVars, files, failure, genCalls, reqVars>>

\* generate_sample has no handler: the exception leaves the view and the
\* framework answers with its own error page
SampleUnhandled ==
    /\ pc = "raised" /\ endpoint = "sample"
    /\ response' = Response(500, "unhandled", NoFile)
    /\ pc' = "done"
    /\ UNCHANGED <<genVars, buildVars, files, failure, genCalls, reqVars>>

Next ==
    \/ PostValidate
    \/ SampleStart
    \/ Assemble
    \/ BeginPass
    \/ LayoutPage
    \/ EndPass
    \/ Save
    \/ PostSend
    \/ PostExcept
    \/ SampleSend
    \/ SampleUnhandled

Spec == Init /\ [][Next]_vars
(***************************************************************************)
(* NumberedCanvas on its own: any sequence of drawing and showPage calls,  *)
(* then save.                                                              *)
(***************************************************************************)
Marks == {1, 2}
Mark(d) == Flowable("Paragraph", "CustomBody", "item", <<0, 0, d>>, <<>>, NoItem, NoTable, 1)

InitCanvas ==
    /\ InitCommon
    /\ reqs = IdleReqs
    /\ pc = "canvas"
    /\ endpoint = "none"
    /\ data = NoBody

notCanv == <<endpoint, data, dataset1, dataset2, dataset3, filepath, story, toc, added,
             pc, passes, tempStory, pos, page, files, response, failure,
             genCalls, clock, reqs, tdata, table>>

CanvasDraw ==
    /\ pc = "canvas" /\ ~canv.closed
    /\ Len(canv.code) < MaxDraws
    /\ \E d \in Marks : canv' = [canv EXCEPT !.code = Append(@, Mark(d))]
    /\ UNCHANGED notCanv

CanvasShowPage ==
    /\ pc = "canvas" /\ ~canv.closed
    /\ Len(canv.saved_page_states) < MaxShowPages
    /\ canv' = showPage(canv)
    /\ UNCHANGED notCanv

CanvasSave ==
    /\ pc = "canvas" /\ ~canv.closed
    /\ canv' = save(canv)
    /\ UNCHANGED notCanv

NextCanvas ==
    \/ CanvasDraw
    \/ CanvasShowPage
    \/ CanvasSave

SpecCanvas == InitCanvas /\ [][NextCanvas]_vars

(***************************************************************************)
(* create_summary_table on its own                                         *)
(***************************************************************************)
\* record i of a dataset of dict records: nkeys keys, the first one numbered
\* 1 + shift; the length of the value of key j varies with base, i and j
TableRecord(i, nkeys, shift, base) ==
    DictItem([j \in 1..nkeys |->
                 [k |-> j + shift, v |-> Str((base + i + j) % (MaxValLen + 1))]],
             Str(i), 1)

\* records after the first may have another key set (shifted by one)
TableInputs ==
    {[i \in 1..rowCount |->
         TableRecord(i, keyCount, IF shifted /\ i > 1 THEN 1 ELSE 0, base)] :
        rowCount \in 1..MaxRows, keyCount \in 1..MaxKeys,
        shifted \in BOOLEAN, base \in 0..MaxValLen}

InitTable ==
    /\ InitCommon
    /\ reqs = IdleReqs
    /\ pc = "table"
    /\ endpoint = "none"
    /\ data = NoBody

ChooseTableInput ==
    /\ pc = "table"
    /\ \E d \in TableInputs : tdata' = d
    /\ pc' = "call"
    /\ UNCHANGED <<endpoint, data, genVars, buildVars, files, response, failure,
                   genCalls, clock, reqs, table>>

CallCreateSummaryTable ==
    /\ pc = "call"
    /\ table' = create_summary_table(tdata)
    /\ pc' = "returned"
    /\ UNCHANGED <<endpoint, data, genVars, buildVars, files, response, failure,
                   genCalls, clock, reqs, tdata>>

NextTable ==
    \/ ChooseTableInput
    \/ CallCreateSummaryTable

SpecTable == InitTable /\ [][NextTable]_vars

(***************************************************************************)
(* Two POST requests served by two threads.  Both use the module-level     *)
(* pdf_gen and the same temp directory.                                    *)
(***************************************************************************)
ConcInputs ==
    {<<Dataset(1, "str", FALSE, 0), <<>>, <<>>>>,
     <<Dataset(2, "str", FALSE, 0), <<>>, <<>>>>,
     <<<<>>, Dataset(1, "dict", FALSE, 0), <<>>>>}

InitConc ==
    /\ InitCommon
    /\ pc = "conc"
    /\ endpoint = "post"
    /\ data = NoBody
    /\ reqs \in [1..2 -> {[pc |-> "request", d |-> d, path |-> NoPath, resp |-> NoResponse] :
                            d \in ConcInputs}]

notReqs == <<endpoint, data, genVars, buildVars, pc, response, failure, genCalls,
             tdata, table>>

\* the wall clock moves to the next second
Tick ==
    /\ pc = "conc"
    /\ clock < MaxClock
    /\ clock' = clock + 1
    /\ UNCHANGED <<notReqs, reqs, files>>

\* generate_pdf_api up to filepath = ...
ReqValidate(r) ==
    /\ pc = "conc"
    /\ reqs[r].pc = "request"
    /\ reqs' = [reqs EXCEPT ![r].path = Path("poc_document", clock), ![r].pc = "generate"]
    /\ UNCHANGED <<notReqs, clock, files>>

\* pdf_gen.generate_pdf(dataset1, dataset2, dataset3, filepath)
ReqGenerate(r) ==
    /\ pc = "conc"
    /\ reqs[r].pc = "generate"
    /\ files' = [files EXCEPT ![reqs[r].path] =
                    GeneratedDocument(reqs[r].d[1], reqs[r].d[2], reqs[r].d[3])]
    /\ reqs' = [reqs EXCEPT ![r].pc = "built"]
    /\ UNCHANGED <<notReqs, clock>>

\* send_file(filepath)
ReqSend(r) ==
    /\ pc = "conc"
    /\ reqs[r].pc = "built"
    /\ reqs' = [reqs EXCEPT ![r].resp = Response(200, "pdf", files[reqs[r].path]),
                            ![r].pc = "done"]
    /\ UNCHANGED <<notReqs, clock, files>>

Validate == \E r \in 1..2 : ReqValidate(r)
Generate == \E r \in 1..2 : ReqGenerate(r)
Send == \E r \in 1..2 : ReqSend(r)

NextConc ==
    \/ Tick
    \/ Validate
    \/ Generate
    \/ Send

SpecConc == InitConc /\ [][NextConc]_vars
(***************************************************************************)
(* Properties                                                              *)
(***************************************************************************)
Datasets == <<dataset1, dataset2, dataset3>>

\* section, subsection, item and summary-table headings
IsIndexedHeading(f) == f.role = "heading" /\ f.label[1] >= 1

Flatten(pages) ==
    LET RECURSIVE Cat(_)
        Cat(ps) == IF ps = <<>> THEN <<>> ELSE Head(ps) \o Cat(Tail(ps))
    IN Cat(pages)

\* the 1-based pages of the document on which a heading with this label is drawn
PagesOf(pages, label) ==
    {i \in 1..Len(pages) :
        \E j \in 1..Len(pages[i]) :
            pages[i][j].role = "heading" /\ pages[i][j].label = label}

EntriesFor(entries, label) == {i \in 1..Len(entries) : entries[i].text = label}

Built == pc \in {"built", "done"} /\ failure = "none" /\ story # <<>>

\* C1: every heading placed in the story has exactly one index entry among
\* those registered with toc.addEntry, and that entry's page is the page of
\* the finished document on which the heading is laid out.
C1_EntryPageIsHeadingPage ==
    Built =>
        \A i \in 1..Len(story) :
            IsIndexedHeading(story[i]) =>
                /\ Cardinality(EntriesFor(added, story[i].label)) = 1
                /\ \A e \in EntriesFor(added, story[i].label) :
                       PagesOf(canv.pages, story[i].label) = {added[e].pageNum}

\* C2: after multiBuild the table of contents holds one entry per heading
\* emitted, and every entry's page lies in 1..N, N the final page count.
C2_FinalIndexComplete ==
    Built =>
        /\ \A i \in 1..Len(story) :
               IsIndexedHeading(story[i]) =>
                   Cardinality(EntriesFor(toc.entries, story[i].label)) = 1
        /\ \A e \in 1..Len(toc.entries) :
               /\ 1 <= toc.entries[e].pageNum
               /\ toc.entries[e].pageNum <= Len(canv.pages)

Stamps(pg) == SelectSeq(pg, LAMBDA f : f.kind = "Stamp")
Unstamped(pg) == SelectSeq(pg, LAMBDA f : f.kind # "Stamp")

\* C3: after save, the document has one page per showPage call, page i
\* carries the single stamp "Page i of total" and otherwise what was drawn
\* on it.
C3_EveryPageStamped ==
    canv.closed =>
        /\ Len(canv.pages) = Len(canv.saved_page_states)
        /\ \A i \in 1..Len(canv.pages) :
               /\ Stamps(canv.pages[i]) = <<Stamp(i, Len(canv.saved_page_states))>>
               /\ Unstamped(canv.pages[i]) = Unstamped(canv.saved_page_states[i].code)

C3_Witness ==
    /\ pc = "canvas" /\ canv.closed
    /\ Len(canv.pages) >= 3
    /\ canv.pages[1] # canv.pages[2]

\* C4: the document a caller receives is the one built from that caller's
\* own datasets, whatever the other request does.
C4_ResponseFromOwnDatasets ==
    \A r \in 1..2 :
        reqs[r].pc = "done" =>
            reqs[r].resp.doc = GeneratedDocument(reqs[r].d[1], reqs[r].d[2], reqs[r].d[3])

AllDicts(ds) == ds # <<>> /\ \A i \in 1..Len(ds) : IsDict(ds[i])

HasTableIn(st, k) == \E i \in 1..Len(st) : st[i].kind = "Table" /\ st[i].label[1] = k
HasSummaryHeadingIn(st, k) ==
    \E i \in 1..Len(st) : st[i].role = "heading" /\ st[i].label = <<k, 3, 0>>

\* C5 as claimed: every dataset of key-value records gets a summary table in
\* its section.
C5_TableInEverySection ==
    story # <<>> =>
        \A k \in 1..3 : AllDicts(Datasets[k]) => HasTableIn(story, k)

\* C5 as amended: section 1 has a summary table (heading and table) exactly
\* when dataset1 is non-empty and its first item is a key-value record;
\* sections 2 and 3 never have one.
C5_TableOnlyInFirstSection ==
    story # <<>> =>
        /\ (HasTableIn(story, 1) /\ HasSummaryHeadingIn(story, 1))
               <=> (dataset1 # <<>> /\ IsDict(dataset1[1]))
        /\ HasTableIn(story, 1) <=> HasSummaryHeadingIn(story, 1)
        /\ \A k \in 2..3 : ~HasTableIn(story, k) /\ ~HasSummaryHeadingIn(story, k)

C5_Witness ==
    /\ story # <<>>
    /\ AllDicts(dataset1) /\ AllDicts(dataset2) /\ AllDicts(dataset3)
    /\ HasTableIn(story, 1)

AllEmpty(b) == \A k \in 1..3 : GetDataset(b, k) = <<>>

\* C6: a POST whose three datasets are absent or empty is answered 400 with
\* an error body; generate_pdf is never entered and no file is written.
C6_EmptyRejectedBeforeLayout ==
    (endpoint = "post" /\ pc # "conc" /\ AllEmpty(data)) =>
        /\ pc \in {"request", "done"}
        /\ pc = "done" => response = Response(400, "error", NoFile)
        /\ genCalls = 0
        /\ story = <<>> /\ passes = 0
        /\ \A p \in Paths : files[p] = NoFile

C6_Witness ==
    /\ endpoint = "post" /\ pc = "done"
    /\ AllEmpty(data) /\ ~Falsy(data)
    /\ response.status = 400

\* C7: whenever a build fails, the caller gets status 500 with an {error}
\* body, on both endpoints.
C7_FailureIsStructuredError ==
    (pc = "done" /\ failure # "none") =>
        /\ response.status = 500
        /\ response.kind = "error"

ItemHeadings(st, k) ==
    SelectSeq(st, LAMBDA f : f.role = "heading" /\ f.label[1] = k /\ f.label[2] = 2)
ItemBodies(st, k) ==
    SelectSeq(st, LAMBDA f : f.role = "item" /\ f.label[1] = k)
Notes(st, k) ==
    SelectSeq(st, LAMBDA f : f.role = "note" /\ f.label[1] = k)
StatsOf(st) == SelectSeq(st, LAMBDA f : f.role = "stats")

\* C8: section k of the story has min(5, n) item subsections, numbered 1..
\* in input order with the first items as their bodies, while the section's
\* note and the statistics report the true n.
C8_Truncation ==
    story # <<>> =>
        /\ \A k \in 1..3 :
               LET n == Len(Datasets[k])
                   m == IF n > 5 THEN 5 ELSE n
               IN /\ Len(ItemHeadings(story, k)) = m
                  /\ Len(ItemBodies(story, k)) = m
                  /\ \A i \in 1..m :
                         /\ ItemHeadings(story, k)[i].label = <<k, 2, i>>
                         /\ ItemBodies(story, k)[i].item = Datasets[k][i]
                  /\ Len(Notes(story, k)) = 1
                  /\ Notes(story, k)[1].n = <<n>>
        /\ Len(StatsOf(story)) = 1
        /\ StatsOf(story)[1].n =
               <<Len(dataset1), Len(dataset2), Len(dataset3),
                 Len(dataset1) + Len(dataset2) + Len(dataset3)>>

C8_Witness ==
    /\ Built
    /\ Len(dataset1) > 5 /\ Len(dataset2) > 5 /\ Len(dataset3) > 5
    /\ Len(ItemHeadings(story, 1)) = 5
    /\ Len(ItemHeadings(story, 3)) = 5

\* C9: for a dataset of dict records the table has min(3, keyCount) columns,
\* which are the first keys of the first record, min(5, rowCount) rows, and
\* no cell is longer than 30 characters.
C9_SummaryTableShape ==
    pc = "returned" =>
        LET keyCount == Len(tdata[1].fields)
            rowCount == Len(tdata)
            cols == IF keyCount > 3 THEN 3 ELSE keyCount
        IN /\ table.kind = "Table"
           /\ Len(table.headers) = cols
           /\ \A j \in 1..cols : table.headers[j] = tdata[1].fields[j].k
           /\ Len(table.rows) = (IF rowCount > 5 THEN 5 ELSE rowCount)
           /\ \A i \in 1..Len(table.rows) :
                  /\ Len(table.rows[i]) = cols
                  /\ \A j \in 1..cols : Len(table.rows[i][j]) <= 30

C9_Witness ==
    /\ pc = "returned"
    /\ Len(tdata) > 5
    /\ Len(tdata[1].fields) > 3
    /\ Len(tdata[2].fields[2].v) > 30
    /\ tdata[2].fields[1].k # tdata[1].fields[1].k
    /\ Len(table.rows) = 5

NonEmptyCount(b) == Cardinality({k \in 1..3 : GetDataset(b, k) # <<>>})

====
